---- MODULE Spec2Model ----
(***************************************************************************)
(* Host-side control flow of gunrock's degree-centrality enactor           *)
(* (dc_enactor.cuh: DCEnactor) and of the connected-components driver      *)
(* (cc_app.cu: cc, gunrock_cc, dispatch_cc, runCC).                        *)
(*                                                                         *)
(* Spec   : the life of one DCEnactor object: construction, any number of  *)
(*          Enact calls (each a run of EnactDC, one step per device-facing *)
(*          operation), GetStatistics between calls, destruction.          *)
(* SpecCC : one call of runCC, one step per lifecycle operation.           *)
(* SpecApi: one call of cc(), through gunrock_cc and dispatch_cc into      *)
(*          runCC and back, on well-formed and malformed CSR graphs.       *)
(* SpecEntry: SpecApi, or gunrock_cc called directly with any type tags    *)
(*          and 1 .. MaxDevices devices.                                   *)
(* SpecTopK: the sort, scan and seed steps of EnactDC as functions of the  *)
(*          problem's degree and vertex-id arrays.                         *)
(*                                                                         *)
(* Every CUDA call or kernel launch may fail (its status is a              *)
(* nondeterministic input); what the host does with the status is taken    *)
(* from the source.  Members the constructor leaves uninitialised start    *)
(* with an arbitrary value.                                                *)
(***************************************************************************)
EXTENDS Integers, Sequences, FiniteSets, TLC

\* ------------------------------------------------------------------ bounds
\* Frontier capacity (edges x queue-sizing factor) of the modelled problem.
Capacity == 2
\* Largest top_nodes argument passed to Enact.
MaxTopNodes == 2
\* Number of Enact calls made on one enactor object.
MaxEnactCalls == 2
\* Number of device-facing operations that fail during the object's life.
MaxFaults == 1
\* Largest device count passed to gunrock_cc.
MaxDevices == 2
\* Largest value an uninitialised counter member is observed to hold.
GarbageMax == 2
\* Largest number of vertices, and largest degree of a vertex, of the DC
\* problems the top-K steps are run on.
MaxNodes == 3
MaxDegree == 2

\* --------------------------------------------------------------- constants
\* Enact: "if (this->cuda_props.device_sm_version >= 300)".
MinSmVersion == 300
\* Device capabilities the enactor is constructed on.
DeviceSmVersions == {200, 300, 350}

NULL == 0

cudaSuccess == "cudaSuccess"
cudaErrorMemoryAllocation == "cudaErrorMemoryAllocation"
cudaErrorInvalidDeviceFunction == "cudaErrorInvalidDeviceFunction"
cudaErrorInvalidConfiguration == "cudaErrorInvalidConfiguration"
cudaErrorLaunchFailure == "cudaErrorLaunchFailure"
cudaErrorUnknown == "cudaErrorUnknown"

\* The one tuned policy pair Enact instantiates (CUDA_ARCH 300, advance LB).
FilterKernelPolicy ==
  [CUDA_ARCH |-> 300, MIN_CTA_OCCUPANCY |-> 8, LOG_THREADS |-> 8,
   ADVANCE_MODE |-> "none"]
AdvanceKernelPolicy ==
  [CUDA_ARCH |-> 300, MIN_CTA_OCCUPANCY |-> 8, LOG_THREADS |-> 10,
   ADVANCE_MODE |-> "LB"]
NoPolicy ==
  [CUDA_ARCH |-> 0, MIN_CTA_OCCUPANCY |-> 0, LOG_THREADS |-> 0,
   ADVANCE_MODE |-> "none"]

\* ------------------------------------------------------------------- state
VARIABLES
  \* DCEnactor / EnactorBase members
  device_sm_version, DEBUG,
  total_runtimes, total_lifetimes, total_queued,
  done, d_done, throttle_event, iteration,
  frontier_attribute, work_progress,
  \* host thread: position, locals of the running EnactDC, last status returned
  pc, top_nodes, d_temp_storage, temp_storage_bytes, d_scanned_edges,
  overflowed, retval, policy,
  \* output parameters of the latest GetStatistics call
  stat,
  \* CUDA runtime bookkeeping and call history
  cuda, calls, log,
  \* runCC: position, live host objects, output->node_value1, call history
  cc_pc, cc_heap, node_value1, cc_log,
  \* cc / gunrock_cc / dispatch_cc: position, the caller's arguments, the
  \* locals of cc(), live host allocations, what runCC's result array and
  \* the caller's component array hold, the value cc() returned
  api_pc, graph_i, data_t, cc_config, num_components, api_heap, streams,
  context, h_component_ids, component, cc_return,
  \* which entry point the caller used, and the writes gunrock_cc made to
  \* its streams and context arrays, in loop order
  api_entry, stream_log, context_log,
  \* device arrays of the DC problem the top-K steps of EnactDC work on
  tk_pc, degrees, d_degrees, d_node_id, d_sub_row_offsets, d_keys

dcvars ==
  <<device_sm_version, DEBUG, total_runtimes, total_lifetimes, total_queued,
    done, d_done, throttle_event, iteration, frontier_attribute,
    work_progress, pc, top_nodes, d_temp_storage, temp_storage_bytes,
    d_scanned_edges, overflowed, retval, policy, stat, cuda, calls, log>>
ccvars == <<cc_pc, cc_heap, node_value1, cc_log>>
apivars ==
  <<api_pc, graph_i, data_t, cc_config, num_components, api_heap, streams,
    context, h_component_ids, component, cc_return, api_entry, stream_log,
    context_log>>
\* What the cc entry points hold while runCC runs.
caller ==
  <<api_pc, graph_i, data_t, cc_config, num_components, api_heap, streams,
    context, component, cc_return, api_entry, stream_log, context_log>>
topkvars == <<tk_pc, degrees, d_degrees, d_node_id, d_sub_row_offsets, d_keys>>
vars == <<dcvars, ccvars, apivars, topkvars>>

\* Members and configuration no operation of the enactor ever assigns.
config == <<device_sm_version, DEBUG>>
counters == <<total_runtimes, total_lifetimes, total_queued, iteration>>
signal == <<done, d_done, throttle_event>>
locals ==
  <<top_nodes, d_temp_storage, temp_storage_bytes, d_scanned_edges,
    overflowed, policy>>

\* --------------------------------------------------------------- log
\* One record per device-facing operation EnactDC issued in the current
\* (or, between calls, the latest) Enact call, in issue order.
Entry(op, ok, kernel, rd, wr, len) ==
  [op |-> op, ok |-> ok, kernel |-> kernel, rd |-> rd, wr |-> wr, len |-> len]

Call(op, ok) == Entry(op, ok, FALSE, "-", "-", 0)
Kernel(op, ok, rd, wr, len) == Entry(op, ok, TRUE, rd, wr, len)

\* frontier_queues.d_keys[selector]
Queue(selector) == IF selector = 0 THEN "d_keys[0]" ELSE "d_keys[1]"
Xor1(selector) == 1 - selector

\* A device-facing operation may fail while the fault budget lasts.
MayFail == cuda.faults < MaxFaults
Fault(ok) == IF ok THEN cuda ELSE [cuda EXCEPT !.faults = @ + 1]

NoStat ==
  [valid |-> FALSE, total_queued |-> 0, search_depth |-> 0,
   avg_duty |-> <<0, 1>>, pending |-> 0]

\* ------------------------------------------------------------- graphs
\* GRTypes tags.
VTXID_INT == "VTXID_INT"
SIZET_INT == "SIZET_INT"
VALUE_INT == "VALUE_INT"
VALUE_UINT == "VALUE_UINT"
VALUE_FLOAT == "VALUE_FLOAT"

\* A GRGraph input as cc() fills it in: the two counts and the two CSR
\* arrays (vertex ids and offsets count from 0, sequence positions from 1).
GRGraph(nodes, edges, row_offsets, col_indices) ==
  [num_nodes |-> nodes, num_edges |-> edges, row_offsets |-> row_offsets,
   col_indices |-> col_indices]

\* Graphs callers pass: well-formed ones ...
TwoTriangles ==
  GRGraph(6, 12, <<0, 2, 4, 6, 8, 10, 12>>,
          <<1, 2, 0, 2, 0, 1, 4, 5, 3, 5, 3, 4>>)
Triangle == GRGraph(3, 6, <<0, 2, 4, 6>>, <<1, 2, 0, 2, 0, 1>>)
OneEdge == GRGraph(2, 2, <<0, 1, 2>>, <<1, 0>>)
TwoIsolated == GRGraph(2, 0, <<0, 0, 0>>, <<>>)
\* ... and malformed ones: offsets that decrease, that do not start at 0,
\* that do not end at the edge count, a column index that is no vertex.
DecreasingOffsets == GRGraph(2, 2, <<0, 2, 1>>, <<1, 0>>)
FirstOffsetNonZero == GRGraph(2, 2, <<1, 1, 2>>, <<1, 0>>)
LastOffsetNotEdges == GRGraph(2, 2, <<0, 1, 1>>, <<1, 0>>)
ColumnOutOfRange == GRGraph(2, 2, <<0, 1, 2>>, <<1, 2>>)
Graphs ==
  {TwoTriangles, Triangle, OneEdge, TwoIsolated, DecreasingOffsets,
   FirstOffsetNonZero, LastOffsetNotEdges, ColumnOutOfRange}

\* The value of an array element nothing has written, or that was computed
\* from reads outside an array: it stands for any int.
Indeterminate == -1

\* The CSR arrays can be walked without leaving them.
WellFormed(g) ==
  /\ Len(g.row_offsets) = g.num_nodes + 1
  /\ Len(g.col_indices) = g.num_edges
  /\ g.row_offsets[1] = 0
  /\ g.row_offsets[g.num_nodes + 1] = g.num_edges
  /\ \A v \in 1..g.num_nodes : g.row_offsets[v] <= g.row_offsets[v + 1]
  /\ \A e \in 1..g.num_edges : g.col_indices[e] \in 0..(g.num_nodes - 1)

Neighbours(g, v) ==
  {g.col_indices[e] : e \in (g.row_offsets[v + 1] + 1)..g.row_offsets[v + 2]}

SetMin(S) == CHOOSE x \in S : \A y \in S : x <= y

\* Labels after so many rounds of every vertex taking the smallest label
\* among its own and its neighbours'.
RECURSIVE Hook(_, _, _)
Hook(g, label, rounds) ==
  IF rounds = 0 THEN label
  ELSE Hook(g,
            [v \in 0..(g.num_nodes - 1) |->
               SetMin({label[v]} \cup {label[u] : u \in Neighbours(g, v)})],
            rounds - 1)

\* What a completed CC run extracts for a well-formed graph: one component
\* id per vertex, the same id for two vertices exactly when a path joins
\* them.
CCLabels(g) ==
  LET final == Hook(g, [v \in 0..(g.num_nodes - 1) |-> v], g.num_nodes)
  IN [i \in 1..g.num_nodes |-> final[i - 1]]

\* ----------------------------------------------------------- construction
\* DCEnactor(DEBUG): iteration, total_queued, done, d_done are initialised;
\* total_runtimes, total_lifetimes and throttle_event are not.
InitDC ==
  /\ device_sm_version \in DeviceSmVersions
  /\ DEBUG \in BOOLEAN
  /\ total_runtimes \in 0..GarbageMax
  /\ total_lifetimes \in 0..GarbageMax
  /\ total_queued = 0
  /\ iteration = 0
  /\ done = NULL
  /\ d_done = NULL
  /\ throttle_event = NULL
  /\ frontier_attribute =
       [queue_length |-> 0, queue_index |-> 0, selector |-> 0,
        queue_reset |-> FALSE]
  /\ work_progress = [length |-> 0, overflow |-> FALSE]
  /\ pc = "idle"
  /\ top_nodes = 0
  /\ d_temp_storage = NULL
  /\ temp_storage_bytes = 0
  /\ d_scanned_edges = NULL
  /\ overflowed = FALSE
  /\ retval = cudaSuccess
  /\ policy = [advance |-> NoPolicy, filter |-> NoPolicy]
  /\ stat = NoStat
  /\ cuda =
       [hostAllocs |-> 0, hostFrees |-> 0, eventCreates |-> 0,
        eventDestroys |-> 0, scratchLive |-> 0, inflight |-> 0, faults |-> 0]
  /\ calls = [Enact |-> 0, EnactDC |-> 0, Setup |-> 0]
  /\ log = <<>>

InitCC ==
  /\ cc_pc = "entry"
  /\ cc_heap = {}
  /\ node_value1 = "unset"
  /\ cc_log = <<>>

\* runCC as dispatch_cc enters it for cc(): the int/int/int instance on
\* device 0 with one stream pair and one context.
InitCaller ==
  /\ api_pc = "instrumentedCC"
  /\ data_t = [VTXID_TYPE |-> VTXID_INT, SIZET_TYPE |-> SIZET_INT,
               VALUE_TYPE |-> VALUE_INT]
  /\ cc_config = [num_devices |-> 1, device_list |-> <<0>>]
  /\ num_components = 0
  /\ api_heap =
       {"graph_o", "graph_i", "gpu_idx", "streams", "context", "parameter"}
  /\ streams = <<"created", "created">>
  /\ context = <<[device |-> 0, stream |-> 0]>>
  /\ h_component_ids = <<>>
  /\ component = <<>>
  /\ cc_return = Indeterminate
  /\ api_entry = "cc"
  /\ stream_log = <<[gpu |-> 0, i |-> 0, index |-> 0, ok |-> TRUE],
                    [gpu |-> 0, i |-> 1, index |-> 1, ok |-> TRUE]>>
  /\ context_log = <<[gpu |-> 0, i |-> 0, index |-> 0, device |-> 0,
                      stream |-> 0]>>

\* No DC problem is attached.
InitNoProblem ==
  /\ tk_pc = "none"
  /\ degrees = <<>>
  /\ d_degrees = <<>>
  /\ d_node_id = <<>>
  /\ d_sub_row_offsets = <<>>
  /\ d_keys = <<<<>>, <<>>>>

Init == InitDC /\ InitCC /\ InitCaller /\ graph_i = Triangle /\ InitNoProblem

\* ------------------------------------------------------------------ Enact
\* Enact(context, problem, top_nodes): the capability test and, on a
\* supported device, the entry of EnactDC (retval = cudaSuccess,
\* d_scanned_edges = NULL) with the sm-300 policy pair.
EnactOn(min_version) ==
  /\ pc = "idle"
  /\ calls.Enact < MaxEnactCalls
  /\ \E k \in 1..MaxTopNodes :
       /\ top_nodes' = k
       /\ IF device_sm_version >= min_version
          THEN /\ pc' = "Setup"
               /\ policy' = [advance |-> AdvanceKernelPolicy,
                             filter |-> FilterKernelPolicy]
               /\ retval' = cudaSuccess
               /\ calls' = [calls EXCEPT !.Enact = @ + 1, !.EnactDC = @ + 1]
          ELSE /\ pc' = "idle"
               /\ policy' = [advance |-> NoPolicy, filter |-> NoPolicy]
               /\ retval' = cudaErrorInvalidDeviceFunction
               /\ calls' = [calls EXCEPT !.Enact = @ + 1]
  /\ d_scanned_edges' = NULL
  /\ d_temp_storage' = NULL
  /\ temp_storage_bytes' = 0
  /\ overflowed' = FALSE
  /\ log' = <<>>
  /\ stat' = NoStat
  /\ UNCHANGED <<config, counters, signal, frontier_attribute, work_progress,
                 cuda, ccvars, apivars, topkvars>>

Enact_NoCapabilityTest == EnactOn(0)

Enact == EnactOn(MinSmVersion)

\* ------------------------------------------------------------------ Setup
SetupOutcomes ==
  {"ok", "cudaHostAlloc", "cudaHostGetDevicePointer",
   "cudaEventCreateWithFlags", "cudaBindTexture"}

SetupError(outcome) ==
  IF outcome = "ok" THEN cudaSuccess
  ELSE IF outcome = "cudaHostAlloc" THEN cudaErrorMemoryAllocation
  ELSE cudaErrorUnknown

\* Setup(problem), called first by EnactDC ("if (retval = Setup(problem))
\* break").  outcome names the CUDA call that fails, if any.  The three
\* allocation calls run only inside "if (!done)"; each returns at once on
\* failure, leaving what the earlier ones set.
Setup ==
  /\ pc = "Setup"
  /\ \E outcome \in SetupOutcomes :
       /\ outcome # "ok" => MayFail
       /\ done # NULL => outcome \in {"ok", "cudaBindTexture"}
       /\ LET gotFlag == done = NULL /\ outcome # "cudaHostAlloc"
              gotMap == gotFlag /\ outcome # "cudaHostGetDevicePointer"
              gotEvent == gotMap /\ outcome # "cudaEventCreateWithFlags"
          IN /\ done' = IF gotFlag THEN cuda.hostAllocs + 1 ELSE done
             /\ d_done' = IF gotMap THEN cuda.hostAllocs + 1 ELSE d_done
             /\ throttle_event' =
                  IF gotEvent THEN cuda.eventCreates + 1 ELSE throttle_event
             /\ cuda' =
                  [Fault(outcome = "ok") EXCEPT
                     !.hostAllocs = IF gotFlag THEN @ + 1 ELSE @,
                     !.eventCreates = IF gotEvent THEN @ + 1 ELSE @]
       /\ retval' = SetupError(outcome)
       /\ pc' = IF outcome = "ok" THEN "EnactorBaseSetup" ELSE "Cleanup"
       /\ log' = Append(log, Call("Setup", outcome = "ok"))
  /\ calls' = [calls EXCEPT !.Setup = @ + 1]
  /\ UNCHANGED <<config, counters, frontier_attribute, work_progress, locals,
                 stat, ccvars, apivars, topkvars>>

\* ---------------------------------------------------------------- EnactDC
\* "if (retval = EnactorBase::Setup(...)) break".
EnactDC_EnactorBaseSetup ==
  /\ pc = "EnactorBaseSetup"
  /\ \E ok \in BOOLEAN :
       /\ ~ok => MayFail
       /\ cuda' = Fault(ok)
       /\ retval' = IF ok THEN cudaSuccess ELSE cudaErrorUnknown
       /\ pc' = IF ok THEN "Sort" ELSE "Cleanup"
       /\ log' = Append(log, Call("EnactorBase::Setup", ok))
  /\ UNCHANGED <<config, counters, signal, frontier_attribute, work_progress,
                 locals, stat, calls, ccvars, apivars, topkvars>>

\* util::CUBRadixSort(false, nodes, d_degrees, d_node_id): the result is
\* not looked at.
EnactDC_Sort ==
  /\ pc = "Sort"
  /\ \E ok \in BOOLEAN :
       /\ ~ok => MayFail
       /\ cuda' = [Fault(ok) EXCEPT !.inflight = IF ok THEN @ + 1 ELSE @]
       /\ log' = Append(log, Kernel("CUBRadixSort", ok, "d_degrees",
                                     "d_node_id", 0))
  /\ pc' = "ScanQuery"
  /\ UNCHANGED <<config, counters, signal, frontier_attribute, work_progress,
                 locals, retval, stat, calls, ccvars, apivars, topkvars>>

\* First ExclusiveSum call: d_temp_storage is NULL, so it only reports the
\* workspace size.  The result is not looked at.
EnactDC_ScanQuery ==
  /\ pc = "ScanQuery"
  /\ \E ok \in BOOLEAN :
       /\ ~ok => MayFail
       /\ cuda' = Fault(ok)
       /\ temp_storage_bytes' = IF ok THEN top_nodes ELSE 0
       /\ log' = Append(log, Entry("ExclusiveSum", ok, FALSE, "d_degrees",
                                    "temp_storage_bytes", top_nodes))
  /\ d_temp_storage' = NULL
  /\ pc' = "MallocTemp"
  /\ UNCHANGED <<config, counters, signal, frontier_attribute, work_progress,
                 top_nodes, d_scanned_edges, overflowed, policy, retval, stat,
                 calls, ccvars, apivars, topkvars>>

\* cudaMalloc(&d_temp_storage, temp_storage_bytes): the result is not
\* looked at; a request of 0 bytes yields no buffer.
EnactDC_MallocTemp ==
  /\ pc = "MallocTemp"
  /\ \E ok \in BOOLEAN :
       /\ ~ok => MayFail
       /\ LET got == ok /\ temp_storage_bytes > 0
          IN /\ d_temp_storage' = IF got THEN cuda.scratchLive + 1 ELSE NULL
             /\ cuda' = [Fault(ok) EXCEPT
                           !.scratchLive = IF got THEN @ + 1 ELSE @]
       /\ log' = Append(log, Call("cudaMalloc d_temp_storage", ok))
  /\ pc' = "ScanExec"
  /\ UNCHANGED <<config, counters, signal, frontier_attribute, work_progress,
                 top_nodes, temp_storage_bytes, d_scanned_edges, overflowed,
                 policy, retval, stat, calls, ccvars, apivars, topkvars>>

\* Second ExclusiveSum call: scans into d_sub_row_offsets when it is given
\* a workspace, and is a second size query when d_temp_storage is NULL.
EnactDC_ScanExec ==
  /\ pc = "ScanExec"
  /\ \E ok \in BOOLEAN :
       /\ ~ok => MayFail
       /\ LET runs == d_temp_storage # NULL
          IN /\ cuda' = [Fault(ok) EXCEPT
                           !.inflight = IF ok /\ runs THEN @ + 1 ELSE @]
             /\ temp_storage_bytes' =
                  IF ok /\ ~runs THEN top_nodes ELSE temp_storage_bytes
             /\ log' = Append(log,
                  Entry("ExclusiveSum", ok, runs, "d_degrees",
                        IF runs THEN "d_sub_row_offsets"
                        ELSE "temp_storage_bytes", top_nodes))
  /\ pc' = "Seed"
  /\ UNCHANGED <<config, counters, signal, frontier_attribute, work_progress,
                 top_nodes, d_temp_storage, d_scanned_edges, overflowed,
                 policy, retval, stat, calls, ccvars, apivars, topkvars>>

\* Seeds frontier_attribute and, the policy's ADVANCE_MODE being LB,
\* allocates d_scanned_edges: a failure here returns from EnactDC at once
\* ("return retval"), past the clean-up after the do-block.
EnactDC_Seed ==
  /\ pc = "Seed"
  /\ frontier_attribute' =
       [queue_length |-> top_nodes, queue_index |-> 0, selector |-> 0,
        queue_reset |-> TRUE]
  /\ IF policy.advance.ADVANCE_MODE = "LB"
     THEN \E ok \in BOOLEAN :
            /\ ~ok => MayFail
            /\ d_scanned_edges' = IF ok THEN cuda.scratchLive + 1 ELSE NULL
            /\ cuda' = [Fault(ok) EXCEPT
                          !.scratchLive = IF ok THEN @ + 1 ELSE @]
            /\ retval' = IF ok THEN retval ELSE cudaErrorMemoryAllocation
            /\ pc' = IF ok THEN "SeedCopy" ELSE "idle"
            /\ log' = Append(log, Call("cudaMalloc d_scanned_edges", ok))
     ELSE /\ pc' = "SeedCopy"
          /\ UNCHANGED <<d_scanned_edges, cuda, retval, log>>
  /\ UNCHANGED <<config, counters, signal, work_progress, top_nodes,
                 d_temp_storage, temp_storage_bytes, overflowed, policy, stat,
                 calls, ccvars, apivars, topkvars>>

\* MemsetCopyVectorKernel(d_keys[selector], d_node_id, top_nodes): a bare
\* launch, no status is taken.
EnactDC_SeedCopy ==
  /\ pc = "SeedCopy"
  /\ \E ok \in BOOLEAN :
       /\ ~ok => MayFail
       /\ cuda' = [Fault(ok) EXCEPT !.inflight = IF ok THEN @ + 1 ELSE @]
       /\ log' = Append(log,
            Kernel("MemsetCopyVectorKernel seed", ok, "d_node_id",
                   Queue(frontier_attribute.selector), top_nodes))
  /\ pc' = "Advance"
  /\ UNCHANGED <<config, counters, signal, frontier_attribute, work_progress,
                 locals, retval, stat, calls, ccvars, apivars, topkvars>>

\* WorkProgress as the kernels and the host see it: the producing kernel
\* records the length of the frontier it wrote under queue_index+1, and
\* CheckOverflow compares what was recorded with the capacity.
WorkProgress_Record(len) == [length |-> len, overflow |-> len > Capacity]
WorkProgress_GetQueueLength(wp) == wp.length
WorkProgress_CheckOverflow(wp) == wp.overflow

\* advance::LaunchKernel<AdvanceKernelPolicy, DCProblem, DcFunctor>: reads
\* d_keys[selector], writes d_keys[selector^1]; no status is taken.  The
\* length of the frontier it produces depends on the graph.
EnactDC_Advance ==
  /\ pc = "Advance"
  /\ \E ok \in BOOLEAN :
       /\ ~ok => MayFail
       /\ cuda' = [Fault(ok) EXCEPT !.inflight = IF ok THEN @ + 1 ELSE @]
       /\ IF ok
          THEN \E len \in 0..(Capacity + 1) :
                 work_progress' = WorkProgress_Record(len)
          ELSE UNCHANGED work_progress
       /\ log' = Append(log,
            Kernel("advance::LaunchKernel", ok,
                   Queue(frontier_attribute.selector),
                   Queue(Xor1(frontier_attribute.selector)),
                   frontier_attribute.queue_length))
  /\ pc' = "Throttle"
  /\ UNCHANGED <<config, counters, signal, frontier_attribute, locals, retval,
                 stat, calls, ccvars, apivars, topkvars>>

\* "if (DEBUG && (retval = cudaThreadSynchronize())) break;" and then
\* cudaEventQuery(throttle_event), whose status is not taken.
EnactDC_Throttle ==
  /\ pc = "Throttle"
  /\ \E ok \in BOOLEAN :
       /\ ~ok => (MayFail /\ DEBUG)
       /\ cuda' = [Fault(ok) EXCEPT
                     !.inflight = IF DEBUG /\ ok THEN 0 ELSE @]
       /\ retval' = IF ok THEN retval ELSE cudaErrorLaunchFailure
       /\ pc' = IF ok THEN "GetQueueLength" ELSE "Cleanup"
       /\ log' =
            LET synced == IF DEBUG
                          THEN Append(log, Call("cudaThreadSynchronize", ok))
                          ELSE log
            IN IF ok
               THEN Append(synced,
                      Entry("cudaEventQuery", throttle_event # NULL, FALSE,
                            "throttle_event", "-", throttle_event))
               ELSE synced
  /\ UNCHANGED <<config, counters, signal, frontier_attribute, work_progress,
                 locals, stat, calls, ccvars, apivars, topkvars>>

\* "if (retval = work_progress.GetQueueLength(queue_index+1, queue_length))
\* break;": a blocking read of the device counter.
EnactDC_GetQueueLength ==
  /\ pc = "GetQueueLength"
  /\ \E ok \in BOOLEAN :
       /\ ~ok => MayFail
       /\ cuda' = [Fault(ok) EXCEPT !.inflight = IF ok THEN 0 ELSE @]
       /\ frontier_attribute' =
            IF ok
            THEN [frontier_attribute EXCEPT
                    !.queue_length = WorkProgress_GetQueueLength(work_progress)]
            ELSE frontier_attribute
       /\ retval' = IF ok THEN retval ELSE cudaErrorUnknown
       /\ pc' = IF ok THEN "Copy" ELSE "Cleanup"
       /\ log' = Append(log,
            Entry("GetQueueLength", ok, FALSE, "work_progress", "queue_length",
                  frontier_attribute.queue_index + 1))
  /\ UNCHANGED <<config, counters, signal, work_progress, locals, stat, calls,
                 ccvars, apivars, topkvars>>

\* top_edges = queue_length; MemsetCopyVectorKernel(d_sub_col_indices,
\* d_keys[selector^1], top_edges): a bare launch, no status is taken.
CopyFrontier(d_src, top_edges) ==
  /\ pc = "Copy"
  /\ \E ok \in BOOLEAN :
       /\ ~ok => MayFail
       /\ cuda' = [Fault(ok) EXCEPT !.inflight = IF ok THEN @ + 1 ELSE @]
       /\ log' = Append(log,
            Kernel("MemsetCopyVectorKernel copy", ok, d_src,
                   "d_sub_col_indices", top_edges))
  /\ pc' = "CheckOverflow"
  /\ UNCHANGED <<config, counters, signal, frontier_attribute, work_progress,
                 locals, retval, stat, calls, ccvars, apivars, topkvars>>

EnactDC_Copy_SeedLength ==
  CopyFrontier(Queue(Xor1(frontier_attribute.selector)), top_nodes)

EnactDC_Copy_ReadBuffer ==
  CopyFrontier(Queue(frontier_attribute.selector),
               frontier_attribute.queue_length)

EnactDC_Copy ==
  CopyFrontier(Queue(Xor1(frontier_attribute.selector)),
               frontier_attribute.queue_length)

\* "if (retval = work_progress.CheckOverflow(overflowed)) break;
\*  if (overflowed) { retval = GRError(cudaErrorInvalidConfiguration); break; }"
CheckOverflowBranch(overflow_status) ==
  /\ pc = "CheckOverflow"
  /\ \E ok \in BOOLEAN :
       /\ ~ok => MayFail
       /\ cuda' = [Fault(ok) EXCEPT !.inflight = IF ok THEN 0 ELSE @]
       /\ overflowed' = (ok /\ WorkProgress_CheckOverflow(work_progress))
       /\ retval' = IF ~ok THEN cudaErrorUnknown
                    ELSE IF WorkProgress_CheckOverflow(work_progress)
                         THEN overflow_status
                         ELSE retval
       /\ log' = Append(log,
            Entry("CheckOverflow", ok, FALSE, "work_progress", "overflowed", 0))
  /\ pc' = "Cleanup"
  /\ UNCHANGED <<config, counters, signal, frontier_attribute, work_progress,
                 top_nodes, d_temp_storage, temp_storage_bytes,
                 d_scanned_edges, policy, stat, calls, ccvars, apivars,
                 topkvars>>

EnactDC_CheckOverflow_Ignored == CheckOverflowBranch(retval)

EnactDC_CheckOverflow == CheckOverflowBranch(cudaErrorInvalidConfiguration)

\* After the do-block: "if (d_scanned_edges) cudaFree(d_scanned_edges);
\* return retval;".  d_temp_storage is not freed.
EnactDC_Cleanup ==
  /\ pc = "Cleanup"
  /\ cuda' = IF d_scanned_edges # NULL
             THEN [cuda EXCEPT !.scratchLive = @ - 1]
             ELSE cuda
  /\ pc' = "idle"
  /\ UNCHANGED <<config, counters, signal, frontier_attribute, work_progress,
                 locals, retval, stat, calls, log, ccvars, apivars, topkvars>>

\* ---------------------------------------------------------- GetStatistics
\* double(total_runtimes) / total_lifetimes, kept as the exact quotient
\* <<numerator, denominator>>; 0.0 is <<0, 1>>.
AvgDuty(runtimes, lifetimes) ==
  IF lifetimes > 0 THEN <<runtimes, lifetimes>> ELSE <<0, 1>>

\* GetStatistics(total_queued, search_depth, avg_duty): synchronises with
\* the device (cudaThreadSynchronize), then copies the counters out.
\* pending is the number of kernels still in flight when they are read.
GetStatisticsAfter(synchronize) ==
  /\ pc = "idle"
  /\ cuda' = IF synchronize THEN [cuda EXCEPT !.inflight = 0] ELSE cuda
  /\ stat' =
       [valid |-> TRUE,
        total_queued |-> total_queued,
        search_depth |-> iteration,
        avg_duty |-> AvgDuty(total_runtimes, total_lifetimes),
        pending |-> cuda'.inflight]
  /\ UNCHANGED <<config, counters, signal, frontier_attribute, work_progress,
                 pc, locals, retval, calls, log, ccvars, apivars, topkvars>>

GetStatistics_Unsynchronized == GetStatisticsAfter(FALSE)

GetStatistics == GetStatisticsAfter(TRUE)

\* ------------------------------------------------------------- ~DCEnactor
\* "if (done) { cudaFreeHost(done); cudaEventDestroy(throttle_event); }"
DestructorIf(allocated) ==
  /\ pc = "idle"
  /\ pc' = "destroyed"
  /\ cuda' = IF allocated
             THEN [cuda EXCEPT !.hostFrees = @ + 1, !.eventDestroys = @ + 1]
             ELSE cuda
  /\ UNCHANGED <<config, counters, signal, frontier_attribute, work_progress,
                 locals, retval, stat, calls, log, ccvars, apivars, topkvars>>

Destructor_Unguarded == DestructorIf(TRUE)

Destructor == DestructorIf(done # NULL)

\* ------------------------------------------------------------------- Spec
Next ==
  \/ Enact
  \/ Setup
  \/ EnactDC_EnactorBaseSetup
  \/ EnactDC_Sort
  \/ EnactDC_ScanQuery
  \/ EnactDC_MallocTemp
  \/ EnactDC_ScanExec
  \/ EnactDC_Seed
  \/ EnactDC_SeedCopy
  \/ EnactDC_Advance
  \/ EnactDC_Throttle
  \/ EnactDC_GetQueueLength
  \/ EnactDC_Copy
  \/ EnactDC_CheckOverflow
  \/ EnactDC_Cleanup
  \/ GetStatistics
  \/ Destructor

Spec == Init /\ [][Next]_vars

\* ------------------------------------------------------------------ runCC
\* One record per operation runCC performs, in order; ok is the status the
\* operation reported.
CCEntry(op, ok) == [op |-> op, ok |-> ok]

\* util::GRError(<call>, "...", __FILE__, __LINE__) as a statement of its
\* own: the call is made, its status is reported and dropped, and runCC
\* goes on to the next statement whatever the status was.
GRError_Discarded(at, op, next) ==
  /\ cc_pc = at
  /\ \E ok \in BOOLEAN : cc_log' = Append(cc_log, CCEntry(op, ok))
  /\ cc_pc' = next
  /\ UNCHANGED <<cc_heap, node_value1, h_component_ids, caller, dcvars,
                 topkvars>>

\* new size_t[num_gpus], new VertexId[graph->nodes], new CcEnactor,
\* new CcProblem.
runCC_Allocate ==
  /\ cc_pc = "entry"
  /\ cc_heap' = {"org_size", "h_component_ids", "enactor", "problem"}
  /\ h_component_ids' = [v \in 1..graph_i.num_nodes |-> Indeterminate]
  /\ cc_log' = cc_log \o <<CCEntry("new CcEnactor", TRUE),
                            CCEntry("new CcProblem", TRUE)>>
  /\ cc_pc' = "Problem::Init"
  /\ UNCHANGED <<node_value1, caller, dcvars, topkvars>>

runCC_ProblemInit ==
  GRError_Discarded("Problem::Init", "Problem::Init", "Enactor::Init")

runCC_EnactorInit ==
  GRError_Discarded("Enactor::Init", "Enactor::Init", "Problem::Reset")

runCC_ProblemReset ==
  GRError_Discarded("Problem::Reset", "Problem::Reset", "Enactor::Reset")

runCC_EnactorReset ==
  GRError_Discarded("Enactor::Reset", "Enactor::Reset", "Enact")

runCC_Enact_WithoutExtract ==
  GRError_Discarded("Enact", "Enact", "CleanUp")

runCC_Enact ==
  GRError_Discarded("Enact", "Enact", "Problem::Extract")

\* problem->Extract(h_component_ids), status dropped, then
\* output->node_value1 = &h_component_ids[0].
runCC_Extract ==
  /\ cc_pc = "Problem::Extract"
  /\ \E ok \in BOOLEAN :
       /\ cc_log' = Append(cc_log, CCEntry("Problem::Extract", ok))
       /\ h_component_ids' =
            IF ~ok THEN h_component_ids
            ELSE IF WellFormed(graph_i) /\ \A i \in DOMAIN cc_log : cc_log[i].ok
                 THEN CCLabels(graph_i)
                 ELSE [v \in 1..graph_i.num_nodes |-> Indeterminate]
  /\ node_value1' = "h_component_ids"
  /\ cc_pc' = "CleanUp"
  /\ UNCHANGED <<cc_heap, caller, dcvars, topkvars>>

\* delete[] org_size; delete problem; delete enactor.
runCC_CleanUp ==
  /\ cc_pc = "CleanUp"
  /\ cc_heap' = cc_heap \ {"org_size", "problem", "enactor"}
  /\ cc_log' = cc_log \o <<CCEntry("delete problem", TRUE),
                            CCEntry("delete enactor", TRUE)>>
  /\ cc_pc' = "returned"
  /\ UNCHANGED <<node_value1, h_component_ids, caller, dcvars, topkvars>>

NextCC ==
  \/ runCC_Allocate
  \/ runCC_ProblemInit
  \/ runCC_EnactorInit
  \/ runCC_ProblemReset
  \/ runCC_EnactorReset
  \/ runCC_Enact
  \/ runCC_Extract
  \/ runCC_CleanUp

\* runCC alone: no DCEnactor takes part, its variables stay as constructed.
InitRunCC ==
  /\ InitDC
  /\ device_sm_version = MinSmVersion
  /\ ~DEBUG
  /\ total_runtimes = 0
  /\ total_lifetimes = 0
  /\ InitCC
  /\ InitCaller
  /\ graph_i \in Graphs
  /\ InitNoProblem

SpecCC == InitRunCC /\ [][NextCC]_vars

\* ------------------------------------------- cc, gunrock_cc, dispatch_cc
\* What the cc entry points leave alone while they run.
api_args == <<graph_i, api_entry>>
runCC_state == <<ccvars, h_component_ids>>

\* cc(component, num_nodes, num_edges, row_offsets, col_indices) up to its
\* call of gunrock_cc: int/int/int type tags, the device list {0},
\* num_components = 0, graph_o and graph_i from malloc, graph_i filled in
\* from the arguments as they are.
cc_Call ==
  /\ api_pc = "cc"
  /\ data_t' = [VTXID_TYPE |-> VTXID_INT, SIZET_TYPE |-> SIZET_INT,
                VALUE_TYPE |-> VALUE_INT]
  /\ cc_config' = [num_devices |-> 1, device_list |-> <<0>>]
  /\ num_components' = 0
  /\ api_heap' = api_heap \cup {"graph_o", "graph_i"}
  /\ api_pc' = "gunrock_cc"
  /\ UNCHANGED <<api_args, streams, context, stream_log, context_log,
                 component, cc_return, runCC_state, dcvars, topkvars>>

\* int _i = gpu * num_gpus * 2 + i;  context[gpu * num_gpus + i]
StreamIndex_OneStride(num_gpus, gpu, i) == gpu * num_gpus + i

StreamIndex(num_gpus, gpu, i) == gpu * num_gpus * 2 + i
ContextIndex(num_gpus, gpu, i) == gpu * num_gpus + i

\* "for (gpu = 0; gpu < num_gpus; ++gpu) for (i = 0; i < num_gpus * 2; ++i)":
\* the (gpu, i) pairs in the order the loop nest visits them.
LoopNest(num_gpus) ==
  [p \in 1..(num_gpus * num_gpus * 2) |->
     [gpu |-> (p - 1) \div (num_gpus * 2), i |-> (p - 1) % (num_gpus * 2)]]

\* The write of a log that an array element keeps: the last one to its
\* index.
LastWrite(writes, index) ==
  CHOOSE w \in DOMAIN writes :
    /\ writes[w].index = index
    /\ \A x \in DOMAIN writes : writes[x].index = index => x <= w

Written(writes, index) == \E w \in DOMAIN writes : writes[w].index = index

StreamHandle(write) == IF write.ok THEN "created" ELSE "invalid"
ContextHandle(write) == [device |-> write.device, stream |-> write.stream]

\* new cudaStream_t[size] after the cudaStreamCreate calls of a log.
StreamsAfter(size, writes) ==
  [e \in 1..size |->
     IF Written(writes, e - 1)
     THEN StreamHandle(writes[LastWrite(writes, e - 1)])
     ELSE "unset"]

\* new ContextPtr[size] after the assignments of a log.
ContextAfter(size, writes) ==
  [e \in 1..size |->
     IF Written(writes, e - 1)
     THEN ContextHandle(writes[LastWrite(writes, e - 1)])
     ELSE [device |-> Indeterminate, stream |-> Indeterminate]]

\* gunrock_cc: the three host arrays, then for every gpu and every
\* i < num_gpus*2 one cudaStreamCreate (status reported and dropped; at
\* most one of them fails) and, for i < num_gpus, one context attached to
\* that stream on device gpu_idx[gpu]; then dispatch_cc.
gunrock_cc ==
  /\ api_pc = "gunrock_cc"
  /\ api_heap' = api_heap \cup {"gpu_idx", "streams", "context"}
  /\ LET num_gpus == cc_config.num_devices
         gpu_idx == cc_config.device_list
         loop == LoopNest(num_gpus)
         IsAttach(it) == it.i < num_gpus
         attaches == SelectSeq(loop, IsAttach)
     IN /\ \E failed \in {0} \cup DOMAIN loop :
             stream_log' =
               [p \in DOMAIN loop |->
                  [gpu |-> loop[p].gpu, i |-> loop[p].i,
                   index |-> StreamIndex(num_gpus, loop[p].gpu, loop[p].i),
                   ok |-> p # failed]]
        /\ context_log' =
             [p \in DOMAIN attaches |->
                [gpu |-> attaches[p].gpu, i |-> attaches[p].i,
                 index |-> ContextIndex(num_gpus, attaches[p].gpu,
                                        attaches[p].i),
                 device |-> gpu_idx[attaches[p].gpu + 1],
                 stream |-> StreamIndex(num_gpus, attaches[p].gpu,
                                        attaches[p].i)]]
        /\ streams' = StreamsAfter(num_gpus * num_gpus * 2, stream_log')
        /\ context' = ContextAfter(num_gpus * num_gpus, context_log')
  /\ api_pc' = "dispatch_cc"
  /\ UNCHANGED <<api_args, data_t, cc_config, num_components, component,
                 cc_return, runCC_state, dcvars, topkvars>>

\* dispatch_cc: new Test_Parameter, then the switch on the type tags: only
\* VTXID_INT / SIZET_INT / VALUE_INT wraps graph_i's counts and arrays in a
\* Csr and enters instrumentedCC (which ends in runCC); every other
\* combination falls through to the return.
dispatch_cc_When(supported) ==
  /\ api_pc = "dispatch_cc"
  /\ api_heap' = api_heap \cup {"parameter"}
  /\ IF supported
     THEN /\ api_pc' = "instrumentedCC"
          /\ cc_pc' = "entry"
     ELSE /\ api_pc' = "dispatched"
          /\ UNCHANGED cc_pc
  /\ UNCHANGED <<api_args, data_t, cc_config, num_components, streams,
                 context, stream_log, context_log, h_component_ids,
                 component, cc_return, cc_heap, node_value1, cc_log, dcvars,
                 topkvars>>

dispatch_cc_AnyType == dispatch_cc_When(TRUE)

dispatch_cc ==
  dispatch_cc_When(/\ data_t.VTXID_TYPE = VTXID_INT
                   /\ data_t.SIZET_TYPE = SIZET_INT
                   /\ data_t.VALUE_TYPE = VALUE_INT)

\* runCC has returned: dispatch_cc detaches the Csr from the caller's
\* arrays and returns, and so does gunrock_cc.
dispatch_cc_Return ==
  /\ api_pc = "instrumentedCC"
  /\ cc_pc = "returned"
  /\ api_pc' = "dispatched"
  /\ UNCHANGED <<api_args, data_t, cc_config, num_components, api_heap,
                 streams, context, stream_log, context_log, component,
                 cc_return, runCC_state, dcvars, topkvars>>

\* cc() after gunrock_cc: memcpy of num_nodes ints from
\* graph_o->node_value1 into the caller's array, free(graph_i),
\* free(graph_o), return num_components.
cc_Return ==
  /\ api_pc = "dispatched"
  /\ api_entry = "cc"
  /\ component' =
       IF node_value1 = "h_component_ids" THEN h_component_ids
       ELSE [v \in 1..graph_i.num_nodes |-> Indeterminate]
  /\ api_heap' = api_heap \ {"graph_i", "graph_o"}
  /\ cc_return' = num_components
  /\ api_pc' = "returned"
  /\ UNCHANGED <<api_args, data_t, cc_config, num_components, streams,
                 context, stream_log, context_log, runCC_state, dcvars,
                 topkvars>>

NextApi ==
  \/ cc_Call
  \/ gunrock_cc
  \/ dispatch_cc
  \/ NextCC
  \/ dispatch_cc_Return
  \/ cc_Return

\* Nothing of cc / gunrock_cc / dispatch_cc / runCC has run yet.
InitNotCalled ==
  /\ InitDC
  /\ device_sm_version = MinSmVersion
  /\ ~DEBUG
  /\ total_runtimes = 0
  /\ total_lifetimes = 0
  /\ InitNoProblem
  /\ cc_pc = "not entered"
  /\ cc_heap = {}
  /\ node_value1 = "unset"
  /\ cc_log = <<>>
  /\ graph_i \in Graphs
  /\ num_components = 0
  /\ api_heap = {}
  /\ streams = <<>>
  /\ context = <<>>
  /\ stream_log = <<>>
  /\ context_log = <<>>
  /\ h_component_ids = <<>>
  /\ cc_return = Indeterminate

\* A caller about to call cc() on one of the graphs.
InitApi ==
  /\ InitNotCalled
  /\ api_entry = "cc"
  /\ api_pc = "cc"
  /\ data_t = [VTXID_TYPE |-> "unset", SIZET_TYPE |-> "unset",
               VALUE_TYPE |-> "unset"]
  /\ cc_config = [num_devices |-> 0, device_list |-> <<>>]
  /\ component = [v \in 1..graph_i.num_nodes |-> Indeterminate]

SpecApi == InitApi /\ [][NextApi]_vars

\* Type tags a caller of gunrock_cc can put into GRTypes: the ones
\* dispatch_cc names and, per field, one it does not.
VtxIdTypes == {VTXID_INT, "VTXID_OTHER"}
SizeTTypes == {SIZET_INT, "SIZET_OTHER"}
ValueTypes == {VALUE_INT, VALUE_UINT, VALUE_FLOAT, "VALUE_OTHER"}

\* A caller about to call gunrock_cc itself, with its own graph_o and
\* graph_i, any type tags and the devices 0 .. num_devices-1.
InitGunrock ==
  /\ InitNotCalled
  /\ api_entry = "gunrock_cc"
  /\ api_pc = "gunrock_cc"
  /\ data_t \in [VTXID_TYPE : VtxIdTypes, SIZET_TYPE : SizeTTypes,
                  VALUE_TYPE : ValueTypes]
  /\ \E n \in 1..MaxDevices :
       cc_config = [num_devices |-> n, device_list |-> [g \in 1..n |-> g - 1]]
  /\ component = <<>>

\* gunrock_cc returns to the caller that called it directly.
gunrock_cc_Return ==
  /\ api_pc = "dispatched"
  /\ api_entry = "gunrock_cc"
  /\ api_pc' = "returned"
  /\ UNCHANGED <<api_args, data_t, cc_config, num_components, api_heap,
                 streams, context, stream_log, context_log, component,
                 cc_return, runCC_state, dcvars, topkvars>>

NextEntry ==
  \/ NextApi
  \/ gunrock_cc_Return

\* Either entry point: cc(), or gunrock_cc called directly.
InitEntry == InitApi \/ InitGunrock

SpecEntry == InitEntry /\ [][NextEntry]_vars

\* ---------------------------------------------- EnactDC: top-K on data
\* The sort, scan and seed steps of EnactDC as functions of the arrays of
\* the problem's data slice: d_degrees holds the degree of vertex v at v and
\* d_node_id holds v at v when Enact is called.

\* 5 vertices with degrees [1,3,2,4,0].
ExampleDegrees == <<1, 3, 2, 4, 0>>
DegreeArrays ==
  UNION {[1..n -> 0..MaxDegree] : n \in 1..MaxNodes} \cup {ExampleDegrees}

\* Key order of the radix sort: descending unless is_ascend.
Precedes(is_ascend, a, b) == IF is_ascend THEN a < b ELSE a > b

\* The radix sort is stable: a pair goes behind every pair already placed
\* that its key does not precede.
RECURSIVE InsertPair(_, _, _)
InsertPair(is_ascend, pair, sorted) ==
  IF sorted = <<>> THEN <<pair>>
  ELSE IF Precedes(is_ascend, pair[1], Head(sorted)[1])
       THEN <<pair>> \o sorted
       ELSE <<Head(sorted)>> \o InsertPair(is_ascend, pair, Tail(sorted))

RECURSIVE SortPairs(_, _)
SortPairs(is_ascend, pairs) ==
  IF pairs = <<>> THEN <<>>
  ELSE InsertPair(is_ascend, pairs[Len(pairs)],
                  SortPairs(is_ascend, SubSeq(pairs, 1, Len(pairs) - 1)))

\* util::CUBRadixSort<Key, Value>(is_ascend, num_elements, d_key, d_value):
\* sorts the first num_elements (key, value) pairs in place.
CUBRadixSort(is_ascend, num_elements, d_key, d_value) ==
  LET sorted == SortPairs(is_ascend,
                          [i \in 1..num_elements |-> <<d_key[i], d_value[i]>>])
  IN [d_key |-> [i \in DOMAIN d_key |->
                   IF i <= num_elements THEN sorted[i][1] ELSE d_key[i]],
      d_value |-> [i \in DOMAIN d_value |->
                     IF i <= num_elements THEN sorted[i][2] ELSE d_value[i]]]

\* cub::DeviceScan::ExclusiveSum(d_temp_storage, temp_storage_bytes, d_in,
\* d_out, num_items) run with a workspace: d_out[i] is the sum of the
\* d_in before position i.
RECURSIVE PrefixSum(_, _)
PrefixSum(d_in, count) ==
  IF count = 0 THEN 0 ELSE PrefixSum(d_in, count - 1) + d_in[count]

ExclusiveSum(d_in, num_items) ==
  [i \in 1..num_items |-> PrefixSum(d_in, i - 1)]

\* Enact(context, problem, top_nodes) on a problem of Len(degrees) vertices.
TopK_Enact ==
  /\ tk_pc = "Enact"
  /\ \E k \in 1..Len(degrees) : top_nodes' = k
  /\ tk_pc' = "Sort"
  /\ UNCHANGED <<config, counters, signal, frontier_attribute, work_progress,
                 pc, d_temp_storage, temp_storage_bytes, d_scanned_edges,
                 overflowed, policy, retval, stat, cuda, calls, log, ccvars,
                 apivars, degrees, d_degrees, d_node_id, d_sub_row_offsets,
                 d_keys>>

\* util::CUBRadixSort<Value, VertexId>(false, graph_slice->nodes,
\* d_degrees, d_node_id).
TopK_SortBy(is_ascend) ==
  /\ tk_pc = "Sort"
  /\ LET sorted == CUBRadixSort(is_ascend, Len(degrees), d_degrees, d_node_id)
     IN /\ d_degrees' = sorted.d_key
        /\ d_node_id' = sorted.d_value
  /\ tk_pc' = "Scan"
  /\ UNCHANGED <<dcvars, ccvars, apivars, degrees, d_sub_row_offsets, d_keys>>

TopK_Sort_Ascending == TopK_SortBy(TRUE)

TopK_Sort == TopK_SortBy(FALSE)

\* The size query, the workspace allocation and the executing
\* ExclusiveSum(d_temp_storage, temp_storage_bytes, d_degrees,
\* d_sub_row_offsets, top_nodes).
TopK_Scan ==
  /\ tk_pc = "Scan"
  /\ d_sub_row_offsets' = ExclusiveSum(d_degrees, top_nodes)
  /\ tk_pc' = "Seed"
  /\ UNCHANGED <<dcvars, ccvars, apivars, degrees, d_degrees, d_node_id,
                 d_keys>>

\* queue_length = top_nodes, queue_index = 0, selector = 0, queue_reset =
\* true, then MemsetCopyVectorKernel(d_keys[selector], d_node_id, top_nodes).
TopK_Seed ==
  /\ tk_pc = "Seed"
  /\ frontier_attribute' =
       [queue_length |-> top_nodes, queue_index |-> 0, selector |-> 0,
        queue_reset |-> TRUE]
  /\ d_keys' = [d_keys EXCEPT ![frontier_attribute'.selector + 1] =
                  [i \in 1..top_nodes |-> d_node_id[i]]]
  /\ tk_pc' = "Seeded"
  /\ UNCHANGED <<config, counters, signal, work_progress, pc, locals, retval,
                 stat, cuda, calls, log, ccvars, apivars, degrees, d_degrees,
                 d_node_id, d_sub_row_offsets>>

NextTopK ==
  \/ TopK_Enact
  \/ TopK_Sort
  \/ TopK_Scan
  \/ TopK_Seed

\* A DC problem after Reset, on a supported device: degree of v at
\* d_degrees[v], v at d_node_id[v], nothing computed yet.
InitTopK ==
  /\ InitDC
  /\ device_sm_version = MinSmVersion
  /\ ~DEBUG
  /\ total_runtimes = 0
  /\ total_lifetimes = 0
  /\ InitCC
  /\ InitCaller
  /\ graph_i = Triangle
  /\ tk_pc = "Enact"
  /\ degrees \in DegreeArrays
  /\ d_degrees = degrees
  /\ d_node_id = [i \in 1..Len(degrees) |-> i - 1]
  /\ d_sub_row_offsets = <<>>
  /\ d_keys = <<<<>>, <<>>>>

SpecTopK == InitTopK /\ [][NextTopK]_vars

\* ================================================================= claims
\* Positions of the host thread outside a running EnactDC.
Returned == pc \in {"idle", "destroyed"}

\* Indices of the log entries of operation op.
Issued(op) == {i \in DOMAIN log : log[i].op = op}

SelectedPolicy ==
  [advance |-> AdvanceKernelPolicy, filter |-> FilterKernelPolicy]

\* C1: on a device below capability 300, Enact returns
\* cudaErrorInvalidDeviceFunction at once: Setup and EnactDC are never
\* entered, nothing is allocated, no kernel is launched.  On capability
\* >= 300 every Enact call runs EnactDC exactly once (and Setup at most once
\* per EnactDC) under the sm-300 Advance/Filter policy pair.
C1_EnactSelectsPolicyByCapability ==
  /\ device_sm_version < MinSmVersion =>
       /\ Returned
       /\ calls.EnactDC = 0
       /\ calls.Setup = 0
       /\ log = <<>>
       /\ cuda.hostAllocs = 0
       /\ cuda.eventCreates = 0
       /\ cuda.scratchLive = 0
       /\ cuda.inflight = 0
       /\ calls.Enact > 0 => retval = cudaErrorInvalidDeviceFunction
  /\ device_sm_version >= MinSmVersion =>
       /\ calls.EnactDC = calls.Enact
       /\ calls.Setup \in {calls.EnactDC - 1, calls.EnactDC}
       /\ calls.Enact > 0 => policy = SelectedPolicy

C1_Witness ==
  /\ device_sm_version < MinSmVersion
  /\ calls.Enact = MaxEnactCalls
  /\ retval = cudaErrorInvalidDeviceFunction
  /\ pc = "idle"

\* C2 (as claimed, of the Setup calls that report success): once a Setup
\* call has returned cudaSuccess, the completion flag and the throttle event
\* have each been allocated exactly once, and the flag pointer, its device
\* mapping and the event are those of that one allocation, however many
\* Setup calls were made (addresses are numbered in allocation order, so 1
\* is the first allocation).
SetupSucceeded == \E i \in Issued("Setup") : log[i].ok

C2_SetupAllocatesOnceOnFirstCall ==
  SetupSucceeded =>
    /\ cuda.hostAllocs = 1
    /\ cuda.eventCreates = 1
    /\ done = 1
    /\ d_done = 1
    /\ throttle_event = 1

\* C3: until the destructor runs nothing is freed or destroyed; once it has
\* run, a flag that was allocated has been freed exactly once, an event that
\* was created has been destroyed exactly once, the flag is never freed more
\* often than it was allocated, and with the flag pointer still null nothing
\* was freed or destroyed at all.
C3_TeardownFreesExactlyOnce ==
  /\ pc # "destroyed" => (cuda.hostFrees = 0 /\ cuda.eventDestroys = 0)
  /\ pc = "destroyed" =>
       /\ cuda.hostAllocs >= 1 => cuda.hostFrees = 1
       /\ cuda.eventCreates >= 1 => cuda.eventDestroys = 1
       /\ cuda.hostFrees <= cuda.hostAllocs
       /\ done = NULL => (cuda.hostFrees = 0 /\ cuda.eventDestroys = 0)

C3_Witness ==
  /\ pc = "destroyed"
  /\ calls.Setup = MaxEnactCalls
  /\ cuda.hostAllocs = 1
  /\ cuda.eventCreates = 1
  /\ cuda.hostFrees = 1
  /\ cuda.eventDestroys = 1

\* C4: when the overflow check has reported an overflow, EnactDC goes
\* straight to its return with the queue-overflow status
\* cudaErrorInvalidConfiguration, which is what Enact returns; and no Enact
\* call launches Advance more than once.
C4_OverflowIsFatalAndNotRetried ==
  /\ overflowed =>
       /\ pc \in {"Cleanup", "idle", "destroyed"}
       /\ retval = cudaErrorInvalidConfiguration
       /\ retval # cudaSuccess
       /\ log[Len(log)].op = "CheckOverflow"
  /\ Cardinality(Issued("advance::LaunchKernel")) <= 1

C4_Witness ==
  /\ pc = "idle"
  /\ overflowed
  /\ work_progress.length > Capacity
  /\ Cardinality(Issued("advance::LaunchKernel")) = 1
  /\ retval = cudaErrorInvalidConfiguration

\* C5 (as claimed): no kernel reads the frontier Advance produced, and
\* nothing is written to d_sub_col_indices, with a length above the
\* capacity; and a run that returns success leaves
\* 0 <= queue_length <= capacity.
C5_OverflowedFrontierIsNeverUsed ==
  /\ \A i \in DOMAIN log :
       (\/ log[i].kernel /\ log[i].rd = Queue(Xor1(frontier_attribute.selector))
        \/ log[i].wr = "d_sub_col_indices") =>
         (0 <= log[i].len /\ log[i].len <= Capacity)
  /\ (Returned /\ calls.EnactDC > 0 /\ retval = cudaSuccess) =>
       (0 <= frontier_attribute.queue_length
        /\ frontier_attribute.queue_length <= Capacity)

\* C6 (as claimed): in runCC no lifecycle operation is invoked after one
\* that reported a failure status.
Lifecycle ==
  {"Problem::Init", "Enactor::Init", "Problem::Reset", "Enactor::Reset",
   "Enact", "Problem::Extract"}

C6_FailureAbortsRunCC ==
  \A i, j \in DOMAIN cc_log :
    (i < j /\ cc_log[i].op \in Lifecycle /\ ~cc_log[i].ok) =>
      cc_log[j].op \notin Lifecycle

\* C7 (as claimed): after a failure of Setup, the sort, either prefix-sum
\* call, either allocation, the seeding copy, the Advance launch, the
\* queue-length readback or the overflow check, EnactDC launches no further
\* kernel and returns a non-success status.
DeviceFacing ==
  {"Setup", "CUBRadixSort", "ExclusiveSum", "cudaMalloc d_temp_storage",
   "cudaMalloc d_scanned_edges", "MemsetCopyVectorKernel seed",
   "advance::LaunchKernel", "GetQueueLength", "CheckOverflow"}

Failed == {i \in DOMAIN log : log[i].op \in DeviceFacing /\ ~log[i].ok}

C7_DeviceFailureIsFatal ==
  /\ \A i \in Failed : \A j \in DOMAIN log : j > i => ~log[j].kernel
  /\ (Returned /\ Failed # {}) => retval # cudaSuccess

\* C8: what GetStatistics hands out was read with no kernel in flight and is
\* exactly (total_queued, iteration, total_runtimes / total_lifetimes), the
\* quotient being 0 when total_lifetimes is 0 and never having a zero
\* denominator; and the step that produces it leaves total_runtimes,
\* total_lifetimes, total_queued and iteration as they were.
C8_Report ==
  stat.valid =>
    /\ stat.pending = 0
    /\ stat.total_queued = total_queued
    /\ stat.search_depth = iteration
    /\ total_lifetimes > 0 => stat.avg_duty = <<total_runtimes, total_lifetimes>>
    /\ total_lifetimes = 0 => stat.avg_duty = <<0, 1>>
    /\ stat.avg_duty[2] # 0

C8_GetStatisticsSynchronizesAndReports ==
  /\ []C8_Report
  /\ [][(~stat.valid /\ stat'.valid) => UNCHANGED counters]_vars

C8_Witness ==
  /\ stat.valid
  /\ calls.EnactDC >= 1
  /\ total_lifetimes > 0
  /\ stat.avg_duty = <<total_runtimes, total_lifetimes>>
  /\ stat.pending = 0

\* C9 (as claimed): every average duty cycle GetStatistics reports lies in
\* [0, 1].
C9_AvgDutyWithinUnitInterval ==
  stat.valid => (0 <= stat.avg_duty[1] /\ stat.avg_duty[1] <= stat.avg_duty[2])

\* C10 (as claimed): after an Enact call that returned success, the
\* total_queued GetStatistics reports is at least the queue length read back
\* after the Advance of that call.
C10_QueuedCoversFinalFrontier ==
  (stat.valid /\ calls.EnactDC >= 1 /\ retval = cudaSuccess) =>
    stat.total_queued >= frontier_attribute.queue_length

\* Operations runCC has performed so far, in order.
LifecycleOps == [i \in DOMAIN cc_log |-> cc_log[i].op]

\* C11 (as claimed): a graph whose row_offsets decrease somewhere, do not
\* start at 0 or do not end at the edge count, or that has a column index
\* that is no vertex, never reaches Problem::Init or Enact: cc() turns it
\* away before runCC works on it.
C11_MalformedGraphIsRejected ==
  ~WellFormed(graph_i) =>
    \A i \in DOMAIN cc_log : cc_log[i].op \notin {"Problem::Init", "Enact"}

\* Degree of vertex v in the problem's graph.
Degree(v) == degrees[v + 1]

\* u comes before v in the top-K order: higher degree first, and of two
\* vertices of equal degree the one with the lower id.
Outranks(u, v) ==
  \/ Degree(u) > Degree(v)
  \/ Degree(u) = Degree(v) /\ u < v

\* Sum of the degrees of the first count frontier entries.
RECURSIVE DegreeSum(_, _)
DegreeSum(frontier, count) ==
  IF count = 0 THEN 0
  ELSE DegreeSum(frontier, count - 1) + Degree(frontier[count])

LifecycleOrder ==
  <<"new CcEnactor", "new CcProblem", "Problem::Init", "Enactor::Init",
    "Problem::Reset", "Enactor::Reset", "Enact", "Problem::Extract",
    "delete problem", "delete enactor">>

\* C13: at every point of runCC the operations performed so far are an
\* initial part of: Problem::Init, Enactor::Init, Problem::Reset,
\* Enactor::Reset, Enact, Problem::Extract, destruction of the problem and
\* of the enactor (each once, in this order, on objects created before);
\* the problem and the enactor are live whenever one of them is used, and
\* when runCC has returned the whole sequence has been performed and both
\* objects are gone.
C13_RunCCLifecycleOrder ==
  /\ Len(cc_log) <= Len(LifecycleOrder)
  /\ LifecycleOps = SubSeq(LifecycleOrder, 1, Len(cc_log))
  /\ cc_pc \in Lifecycle => {"problem", "enactor"} \subseteq cc_heap
  /\ cc_pc = "returned" =>
       /\ LifecycleOps = LifecycleOrder
       /\ cc_heap \cap {"problem", "enactor"} = {}

C13_Witness ==
  /\ cc_pc = "returned"
  /\ LifecycleOps = LifecycleOrder
  /\ \A i \in DOMAIN cc_log : cc_log[i].ok

\* Component ids in the caller's array once every element of it holds one.
ComponentIds == {component[v] : v \in DOMAIN component}

\* C14 (as claimed): when cc() has returned after a run that filled the
\* caller's component array, the value it returned is the number of
\* distinct component ids in that array (2 for two disjoint triangles).
C14_CcReturnsNumberOfComponents ==
  (api_pc = "returned" /\ Indeterminate \notin ComponentIds) =>
    cc_return = Cardinality(ComponentIds)

\* C15 (as claimed): the second ExclusiveSum call of an EnactDC run is
\* given a workspace (it is never a second size query on a null
\* d_temp_storage), and when Advance is launched a scan has been issued
\* that writes d_sub_row_offsets.
C15_ScanRunsWithWorkspace ==
  /\ \A i, j \in Issued("ExclusiveSum") : i < j => log[j].kernel
  /\ Issued("advance::LaunchKernel") # {} =>
       \E i \in Issued("ExclusiveSum") : log[i].wr = "d_sub_row_offsets"

\* The device-facing operations of a complete EnactDC run, in order (the
\* cudaThreadSynchronize of a DEBUG build left aside).
EnactDCOrder ==
  <<"Setup", "EnactorBase::Setup", "CUBRadixSort", "ExclusiveSum",
    "cudaMalloc d_temp_storage", "ExclusiveSum", "cudaMalloc d_scanned_edges",
    "MemsetCopyVectorKernel seed", "advance::LaunchKernel", "cudaEventQuery",
    "GetQueueLength", "MemsetCopyVectorKernel copy", "CheckOverflow">>

IsStep(entry) == entry.op # "cudaThreadSynchronize"

\* Operations of the current EnactDC run so far, in issue order.
Steps ==
  LET issued == SelectSeq(log, IsStep)
  IN [i \in DOMAIN issued |-> issued[i].op]

\* An Enact call ran EnactDC and EnactDC returned cudaSuccess.
EnactDCSucceeded == pc = "idle" /\ log # <<>> /\ retval = cudaSuccess

\* C16: what EnactDC has issued so far is always an initial part of: sort,
\* scan (size query, workspace allocation, second call), seed, one Advance
\* launch, queue-length readback, copy into d_sub_col_indices; a run that
\* returns cudaSuccess has issued all of it; between the seed and the
\* Advance launch queue_length = top_nodes, queue_index = 0 and selector =
\* 0; and the copy is issued only after a readback for queue_index + 1 has
\* returned successfully, with exactly the length that readback obtained.
C16_EnactDCStepOrder ==
  /\ Len(Steps) <= Len(EnactDCOrder)
  /\ Steps = SubSeq(EnactDCOrder, 1, Len(Steps))
  /\ EnactDCSucceeded => Steps = EnactDCOrder
  /\ pc \in {"SeedCopy", "Advance"} =>
       frontier_attribute =
         [queue_length |-> top_nodes, queue_index |-> 0, selector |-> 0,
          queue_reset |-> TRUE]
  /\ \A c \in Issued("MemsetCopyVectorKernel copy") :
       /\ \E g \in Issued("GetQueueLength") :
            /\ g < c
            /\ log[g].ok
            /\ log[g].len = frontier_attribute.queue_index + 1
       /\ log[c].len = WorkProgress_GetQueueLength(work_progress)
       /\ log[c].len = frontier_attribute.queue_length

\* A successful run whose Advance produced a frontier of another length
\* than the seed.
C16_Witness ==
  /\ EnactDCSucceeded
  /\ Steps = EnactDCOrder
  /\ \E c \in Issued("MemsetCopyVectorKernel copy") : log[c].len # top_nodes

\* C17: the Advance launch reads d_keys[selector] and writes
\* d_keys[selector^1], two different buffers; the seeding copy wrote the
\* buffer Advance reads; and the copy into d_sub_col_indices reads the
\* buffer Advance wrote, never the one it read.
C17_DoubleBuffering ==
  \A a \in Issued("advance::LaunchKernel") :
    /\ log[a].rd = Queue(frontier_attribute.selector)
    /\ log[a].wr = Queue(Xor1(frontier_attribute.selector))
    /\ log[a].rd # log[a].wr
    /\ \E s \in Issued("MemsetCopyVectorKernel seed") :
         s < a /\ log[s].wr = log[a].rd
    /\ \A c \in Issued("MemsetCopyVectorKernel copy") :
         /\ a < c
         /\ log[c].rd = log[a].wr
         /\ log[c].rd # log[a].rd

C17_Witness ==
  /\ pc = "CheckOverflow"
  /\ \E a \in Issued("advance::LaunchKernel") :
       \E c \in Issued("MemsetCopyVectorKernel copy") :
         log[a].ok /\ log[c].ok /\ log[c].rd = "d_keys[1]"

\* C18 (as claimed, of runs in which no operation failed): the search
\* depth GetStatistics reports after an Enact call that returned
\* cudaSuccess counts the Advance rounds executed: it is the number of
\* rounds of that call after the first call, never less after later ones,
\* hence at least 1 after any completed top-K run.
C18_SearchDepthCountsRounds ==
  (stat.valid /\ EnactDCSucceeded /\ cuda.faults = 0) =>
    /\ stat.search_depth >= Cardinality(Issued("advance::LaunchKernel"))
    /\ calls.EnactDC = 1 =>
         stat.search_depth = Cardinality(Issued("advance::LaunchKernel"))

\* C19 (as claimed): whenever the completion flag pointer is non-null, the
\* throttle event has been created and the flag's device mapping is set,
\* also after a Setup call that failed part-way.
C19_FlagImpliesEventAndMapping ==
  done # NULL => (throttle_event # NULL /\ d_done # NULL)

\* C20 (as claimed): when EnactDC has returned, on the success path and on
\* every error path, no device buffer it allocated (d_temp_storage,
\* d_scanned_edges) is still allocated.
C20_ScratchBuffersAreFreed ==
  Returned => cuda.scratchLive = 0

\* The type tags are (int vertex id, int size, int value).
IntIntInt ==
  /\ data_t.VTXID_TYPE = VTXID_INT
  /\ data_t.SIZET_TYPE = SIZET_INT
  /\ data_t.VALUE_TYPE = VALUE_INT

\* C21: under any other type tags than int/int/int nothing of runCC ever
\* runs (no Problem or Enactor is created, no lifecycle operation is
\* performed) and graph_o->node_value1 stays as the caller passed it; and
\* when cc() gets to read graph_o->node_value1, runCC has run to its end
\* and has set it to the result array after Problem::Extract.
C21_UnsupportedTypesRunNothing ==
  /\ ~IntIntInt =>
       /\ cc_pc = "not entered"
       /\ cc_log = <<>>
       /\ cc_heap = {}
       /\ h_component_ids = <<>>
       /\ node_value1 = "unset"
  /\ (api_entry = "cc" /\ api_pc \in {"dispatched", "returned"}) =>
       /\ IntIntInt
       /\ cc_pc = "returned"
       /\ node_value1 = "h_component_ids"
       /\ \E i \in DOMAIN cc_log : cc_log[i].op = "Problem::Extract"

\* gunrock_cc called with (int, int, float) has gone through dispatch_cc
\* and returned.
C21_Witness ==
  /\ api_entry = "gunrock_cc"
  /\ api_pc = "returned"
  /\ data_t.VALUE_TYPE = VALUE_FLOAT
  /\ data_t.VTXID_TYPE = VTXID_INT
  /\ "parameter" \in api_heap

\* C22 (as claimed): when cc() has returned, no host allocation made during
\* the call by cc, gunrock_cc, dispatch_cc or runCC is still live and no
\* stream created by gunrock_cc still exists.
C22_CcReleasesEverything ==
  api_pc = "returned" =>
    /\ api_heap = {}
    /\ cc_heap = {}
    /\ \A s \in DOMAIN streams : streams[s] # "created"

\* Indices a write log touches, and whether it touches each index of
\* 0 .. size-1 exactly once.
WrittenOnce(writes, size) ==
  /\ Len(writes) = size
  /\ \A w \in DOMAIN writes : writes[w].index \in 0..(size - 1)
  /\ \A w, x \in DOMAIN writes :
       writes[w].index = writes[x].index => w = x

\* C23: once gunrock_cc has run its loop for n = num_devices >= 1, it has
\* issued 2*n*n stream creations and n*n context creations; the stream
\* indices gpu*n*2+i lie in [0, 2*n*n) and each is written exactly once,
\* the context indices gpu*n+i lie in [0, n*n) and each is written exactly
\* once; and the context at gpu*n+i is attached to the stream written at
\* gpu*n*2+i by the same gpu, on that gpu's device.
C23_StreamAndContextIndices ==
  api_pc \notin {"cc", "gunrock_cc"} =>
    LET n == cc_config.num_devices
    IN /\ WrittenOnce(stream_log, 2 * n * n)
       /\ WrittenOnce(context_log, n * n)
       /\ Len(streams) = 2 * n * n
       /\ Len(context) = n * n
       /\ \A s \in DOMAIN streams : streams[s] # "unset"
       /\ \A c \in DOMAIN context_log :
            /\ context_log[c].index = context_log[c].gpu * n + context_log[c].i
            /\ context_log[c].stream =
                 context_log[c].gpu * n * 2 + context_log[c].i
            /\ context_log[c].device =
                 cc_config.device_list[context_log[c].gpu + 1]
            /\ context[context_log[c].index + 1] =
                 [device |-> context_log[c].device,
                  stream |-> context_log[c].stream]
            /\ \E w \in DOMAIN stream_log :
                 /\ stream_log[w].index = context_log[c].stream
                 /\ stream_log[w].gpu = context_log[c].gpu
                 /\ stream_log[w].i = context_log[c].i

\* gunrock_cc has run for two devices: 8 streams, 4 contexts.
C23_Witness ==
  /\ api_pc = "dispatch_cc"
  /\ cc_config.num_devices = 2
  /\ Len(stream_log) = 8
  /\ Len(context_log) = 4
  /\ context[4] = [device |-> 1, stream |-> 5]

====
